---- MODULE Spec2Model ----
(***************************************************************************)
(* Model of the Nift-ai backend: the indicator entry points of             *)
(* src/indicators.py (calculate_ema, calculate_rsi, calculate_supertrend)  *)
(* and the request handlers predict() and chart() of src/main.py.          *)
(*                                                                         *)
(* Numbers.  Bar prices are integers (price units).  A float of the        *)
(* program is a record [nan, v]: NaN, or a finite value v.  Finite values  *)
(* of predict() (EMA, ATR, RSI, price, target, stop) are fixed point with  *)
(* Resolution steps per unit; the Supertrend bands of a pass with period P *)
(* are kept exactly, as integers in units of 1/(2P).                       *)
(***************************************************************************)
EXTENDS Integers, Sequences, FiniteSets, TLC

VARIABLES
    entry,       \* the entry point being evaluated
    pc,          \* position inside it
    fetch,       \* outcome of yf.download: "ok" or "raise"
    data,        \* the OHLCV table: sequence of [High, Low, Close]
    now_utc,     \* minute of the day of datetime.utcnow()
    last_time,   \* minute of the day of data.index[-1]
    period,      \* the period argument of the indicator entry points
    i,           \* loop index of the Supertrend forward pass
    supertrend,  \* the supertrend series (floats, units 1/(2P))
    direction,   \* the direction series (1, -1)
    price, fast, slow, rsi_last, atr_last, st_last, st_dir,  \* predict() locals
    signal, confidence, target, stop_loss,                   \* predict() locals
    ret          \* what the entry point returned or raised

vars == <<entry, pc, fetch, data, now_utc, last_time, period, i, supertrend,
          direction, price, fast, slow, rsi_last, atr_last, st_last, st_dir,
          signal, confidence, target, stop_loss, ret>>

----------------------------------------------------------------------------
(* Bounds of the model *)

Resolution == 100      \* fixed-point steps per unit
MaxLen == 4            \* longest table handed to an indicator entry point
MaxPeriod == 2         \* largest period handed to an indicator entry point

----------------------------------------------------------------------------
(* Floats *)

NaN == [nan |-> TRUE, v |-> 0]
Fin(x) == [nan |-> FALSE, v |-> x]
IsNaN(x) == x.nan
IsFinite(x) == ~x.nan

\* IEEE comparisons: false as soon as one side is NaN
FGt(a, b) == ~a.nan /\ ~b.nan /\ a.v > b.v
FLt(a, b) == ~a.nan /\ ~b.nan /\ a.v < b.v

Abs(x) == IF x < 0 THEN -x ELSE x
Min(a, b) == IF a < b THEN a ELSE b
Max(a, b) == IF a > b THEN a ELSE b

\* n/d rounded to the nearest integer, ties to even (Python's round), d > 0
RoundHalfEven(n, d) ==
    LET q == n \div d
        r == n % d
    IN  IF 2 * r < d THEN q
        ELSE IF 2 * r > d THEN q + 1
        ELSE IF q % 2 = 0 THEN q ELSE q + 1

\* 0-based access, as .iloc[k]
At(s, k) == s[k + 1]

----------------------------------------------------------------------------
(* Signal fusion of predict(), src/main.py lines 98-130.                   *)
(* f, s, a, p are fixed point (1/Resolution); r is the RSI in              *)
(* 1/Resolution of a percent; d is the Supertrend direction.               *)

RsiBuyLevel == 53
RsiSellLevel == 47

Signal_BuyAtThreshold(f, s, r, d) ==
    IF f > s /\ r >= RsiBuyLevel * Resolution /\ d = 1 THEN "BUY"
    ELSE IF f < s /\ r < RsiSellLevel * Resolution /\ d = -1 THEN "SELL"
    ELSE "NEUTRAL"

Signal(f, s, r, d) ==
    IF f > s /\ r > RsiBuyLevel * Resolution /\ d = 1 THEN "BUY"
    ELSE IF f < s /\ r < RsiSellLevel * Resolution /\ d = -1 THEN "SELL"
    ELSE "NEUTRAL"

\* ema_strength = min(ema_diff / atr_last * 20, 40) if atr_last > 0 else 0,
\* as the numerator of a fraction over a (over 1 when a = 0)
EmaStrengthNum(f, s, a) ==
    IF a > 0 THEN Min(20 * Abs(f - s), 40 * a) ELSE 0

\* rsi_strength, as the numerator of a fraction over 2 * Resolution
RsiStrengthNum(sig, r) ==
    IF sig = "BUY"
        THEN Max(Min(3 * (r - 50 * Resolution), 60 * Resolution), 0)
    ELSE IF sig = "SELL"
        THEN Max(Min(3 * (50 * Resolution - r), 60 * Resolution), 0)
    ELSE 0

StStrength(sig, d) ==
    IF (sig = "BUY" /\ d = 1) \/ (sig = "SELL" /\ d = -1) THEN 30 ELSE 0

\* confidence = round(ema_strength + rsi_strength + st_strength, 1), in tenths
Confidence(sig, f, s, r, a, d) ==
    LET den == IF a > 0 THEN a ELSE 1
        num == 2 * Resolution * EmaStrengthNum(f, s, a)
               + den * RsiStrengthNum(sig, r)
               + den * 2 * Resolution * StStrength(sig, d)
    IN  RoundHalfEven(10 * num, 2 * Resolution * den)

\* risk_atr = atr_last * 1.2 and reward_atr = atr_last * 2.4, in tenths of a
\* fixed-point step so that both products are exact
RiskAtr(a) == 12 * a
RewardAtr(a) == 24 * a

Target_SellAdds(sig, p, a) ==
    IF sig = "BUY" THEN 10 * p + RewardAtr(a)
    ELSE IF sig = "SELL" THEN 10 * p + RewardAtr(a)
    ELSE 10 * p

\* target and stop_loss, in tenths of a fixed-point step
Target(sig, p, a) ==
    IF sig = "BUY" THEN 10 * p + RewardAtr(a)
    ELSE IF sig = "SELL" THEN 10 * p - RewardAtr(a)
    ELSE 10 * p

StopLoss(sig, p, a) ==
    IF sig = "BUY" THEN 10 * p - RiskAtr(a)
    ELSE IF sig = "SELL" THEN 10 * p + RiskAtr(a)
    ELSE 10 * p

----------------------------------------------------------------------------
(* Series of a table.  Index k is 0-based, as .iloc[k].                    *)

High(d, k) == At(d, k).High
Low(d, k) == At(d, k).Low
Close(d, k) == At(d, k).Close

\* tr = max(high - low, |high - close.shift()|, |low - close.shift()|);
\* close.shift() is NaN at bar 0 and max(axis=1) skips NaN
TrueRange(d, k) ==
    IF k = 0 THEN High(d, 0) - Low(d, 0)
    ELSE Max(High(d, k) - Low(d, k),
             Max(Abs(High(d, k) - Close(d, k - 1)),
                 Abs(Low(d, k) - Close(d, k - 1))))

RECURSIVE SumTR(_, _, _)
\* sum of the true range over bars k-n+1 .. k
SumTR(d, k, n) == IF n = 0 THEN 0 ELSE TrueRange(d, k) + SumTR(d, k - 1, n - 1)

st_multiplier == 3

\* hl2 + multiplier * atr with atr = tr.rolling(window=P).mean(), in units of
\* 1/(2P); NaN while the window is not full
UpperBand(d, k, P) ==
    IF k < P - 1 THEN NaN
    ELSE Fin(P * (High(d, k) + Low(d, k)) + 2 * st_multiplier * SumTR(d, k, P))

LowerBand(d, k, P) ==
    IF k < P - 1 THEN NaN
    ELSE Fin(P * (High(d, k) + Low(d, k)) - 2 * st_multiplier * SumTR(d, k, P))

\* close in the units of the bands
CloseST(d, k, P) == Fin(2 * P * Close(d, k))

\* atr = tr.rolling(window=P).mean(), fixed point
Atr(d, k, P) ==
    IF k < P - 1 THEN NaN ELSE Fin((Resolution * SumTR(d, k, P)) \div P)

RECURSIVE Ema(_, _, _)
\* series.ewm(span=span, adjust=False).mean(): y0 = x0,
\* y[k] = (1 - alpha) y[k-1] + alpha x[k], alpha = 2 / (span + 1); fixed point
Ema(d, span, k) ==
    IF k = 0 THEN Resolution * Close(d, 0)
    ELSE ((span - 1) * Ema(d, span, k - 1) + 2 * Resolution * Close(d, k))
             \div (span + 1)

\* delta.where(delta > 0, 0) and -delta.where(delta < 0, 0); delta is NaN at bar 0
\* and where() puts 0 there
Gain(d, k) ==
    IF k = 0 THEN 0 ELSE Max(Close(d, k) - Close(d, k - 1), 0)
Loss(d, k) ==
    IF k = 0 THEN 0 ELSE Max(Close(d, k - 1) - Close(d, k), 0)

RECURSIVE SumGain(_, _, _)
SumGain(d, k, n) == IF n = 0 THEN 0 ELSE Gain(d, k) + SumGain(d, k - 1, n - 1)
RECURSIVE SumLoss(_, _, _)
SumLoss(d, k, n) == IF n = 0 THEN 0 ELSE Loss(d, k) + SumLoss(d, k - 1, n - 1)

\* rs = gain / loss.replace(0, float('inf')), as a fraction of window sums:
\* a finite gain divided by infinity is 0.0
RelStrength(g, l) ==
    IF l = 0 THEN [num |-> 0, den |-> 1] ELSE [num |-> g, den |-> l]

\* 100 - (100 / (1 + rs)), in 1/Resolution of a percent
RsiOf(rs) ==
    100 * Resolution - (100 * Resolution * rs.den) \div (rs.den + rs.num)

\* the RSI series at bar k; NaN while the rolling window is not full
Rsi(d, k, P) ==
    IF k < P - 1 THEN NaN
    ELSE Fin(RsiOf(RelStrength(SumGain(d, k, P), SumLoss(d, k, P))))

----------------------------------------------------------------------------
(* One iteration of the Supertrend forward pass at bar k >= 1.  st and dir *)
(* are the series so far; the result is the pair written at bar k.  A      *)
(* direction of 0 is an entry of the direction series not yet written.     *)

calculate_supertrend_iter_BadElif(d, P, st, dir, k) ==
    LET c == CloseST(d, k, P)
        body ==
            IF FGt(c, UpperBand(d, k - 1, P))
                THEN [st |-> LowerBand(d, k, P), dir |-> 1]
            ELSE IF FLt(c, UpperBand(d, k - 1, P))
                THEN [st |-> UpperBand(d, k, P), dir |-> -1]
            ELSE [st |-> At(st, k - 1), dir |-> At(dir, k - 1)]
    IN  IF IsNaN(body.st) THEN [st |-> At(st, k - 1), dir |-> body.dir] ELSE body

calculate_supertrend_iter_RatchetNaN(d, P, st, dir, k) ==
    LET c == CloseST(d, k, P)
        body ==
            IF FGt(c, UpperBand(d, k - 1, P))
                THEN [st |-> LowerBand(d, k, P), dir |-> 1]
            ELSE IF FLt(c, LowerBand(d, k - 1, P))
                THEN [st |-> UpperBand(d, k, P), dir |-> -1]
            ELSE IF At(dir, k - 1) = 1 /\ ~FGt(At(st, k - 1), LowerBand(d, k, P))
                THEN [st |-> LowerBand(d, k, P), dir |-> At(dir, k - 1)]
            ELSE IF At(dir, k - 1) = -1 /\ ~FLt(At(st, k - 1), UpperBand(d, k, P))
                THEN [st |-> UpperBand(d, k, P), dir |-> At(dir, k - 1)]
            ELSE [st |-> At(st, k - 1), dir |-> At(dir, k - 1)]
    IN  IF IsNaN(body.st) THEN [st |-> At(st, k - 1), dir |-> body.dir] ELSE body

calculate_supertrend_iter_FillFromBand(d, P, st, dir, k) ==
    LET c == CloseST(d, k, P)
        body ==
            IF FGt(c, UpperBand(d, k - 1, P))
                THEN [st |-> LowerBand(d, k, P), dir |-> 1]
            ELSE IF FLt(c, LowerBand(d, k - 1, P))
                THEN [st |-> UpperBand(d, k, P), dir |-> -1]
            ELSE IF At(dir, k - 1) = 1 /\ FLt(At(st, k - 1), LowerBand(d, k, P))
                THEN [st |-> LowerBand(d, k, P), dir |-> At(dir, k - 1)]
            ELSE IF At(dir, k - 1) = -1 /\ FGt(At(st, k - 1), UpperBand(d, k, P))
                THEN [st |-> UpperBand(d, k, P), dir |-> At(dir, k - 1)]
            ELSE [st |-> At(st, k - 1), dir |-> At(dir, k - 1)]
    IN  IF IsNaN(body.st) THEN [st |-> LowerBand(d, k, P), dir |-> body.dir] ELSE body

\* src/indicators.py lines 48-65, with the "Fill NaN" step at the end
calculate_supertrend_iter(d, P, st, dir, k) ==
    LET c == CloseST(d, k, P)
        body ==
            IF FGt(c, UpperBand(d, k - 1, P))
                THEN [st |-> LowerBand(d, k, P), dir |-> 1]
            ELSE IF FLt(c, LowerBand(d, k - 1, P))
                THEN [st |-> UpperBand(d, k, P), dir |-> -1]
            ELSE IF At(dir, k - 1) = 1 /\ FLt(At(st, k - 1), LowerBand(d, k, P))
                THEN [st |-> LowerBand(d, k, P), dir |-> At(dir, k - 1)]
            ELSE IF At(dir, k - 1) = -1 /\ FGt(At(st, k - 1), UpperBand(d, k, P))
                THEN [st |-> UpperBand(d, k, P), dir |-> At(dir, k - 1)]
            ELSE [st |-> At(st, k - 1), dir |-> At(dir, k - 1)]
    IN  IF IsNaN(body.st) THEN [st |-> At(st, k - 1), dir |-> body.dir] ELSE body

\* src/main.py lines 81-93: the inline copy of predict(), no fill step
predict_supertrend_iter(d, P, st, dir, k) ==
    LET c == CloseST(d, k, P)
    IN  IF FGt(c, UpperBand(d, k - 1, P))
            THEN [st |-> LowerBand(d, k, P), dir |-> 1]
        ELSE IF FLt(c, LowerBand(d, k - 1, P))
            THEN [st |-> UpperBand(d, k, P), dir |-> -1]
        ELSE IF At(dir, k - 1) = 1 /\ FLt(At(st, k - 1), LowerBand(d, k, P))
            THEN [st |-> LowerBand(d, k, P), dir |-> At(dir, k - 1)]
        ELSE IF At(dir, k - 1) = -1 /\ FGt(At(st, k - 1), UpperBand(d, k, P))
            THEN [st |-> UpperBand(d, k, P), dir |-> At(dir, k - 1)]
        ELSE [st |-> At(st, k - 1), dir |-> At(dir, k - 1)]

\* src/main.py lines 268-280: the inline copy of chart(), no fill step
chart_supertrend_iter(d, P, st, dir, k) ==
    LET c == CloseST(d, k, P)
    IN  IF FGt(c, UpperBand(d, k - 1, P))
            THEN [st |-> LowerBand(d, k, P), dir |-> 1]
        ELSE IF FLt(c, LowerBand(d, k - 1, P))
            THEN [st |-> UpperBand(d, k, P), dir |-> -1]
        ELSE IF At(dir, k - 1) = 1 /\ FLt(At(st, k - 1), LowerBand(d, k, P))
            THEN [st |-> LowerBand(d, k, P), dir |-> At(dir, k - 1)]
        ELSE IF At(dir, k - 1) = -1 /\ FGt(At(st, k - 1), UpperBand(d, k, P))
            THEN [st |-> UpperBand(d, k, P), dir |-> At(dir, k - 1)]
        ELSE [st |-> At(st, k - 1), dir |-> At(dir, k - 1)]

\* supertrend = pd.Series(index=..., dtype=float); supertrend.iloc[0] = lower_band.iloc[0]
SeedSupertrend(d, P) ==
    [k \in 1..Len(d) |-> IF k = 1 THEN LowerBand(d, 0, P) ELSE NaN]

\* direction = pd.Series(index=..., dtype=int); direction.iloc[0] = 1
SeedDirection(d) == [k \in 1..Len(d) |-> IF k = 1 THEN 1 ELSE 0]

\* s with s.iloc[k] = x
SetAt(s, k, x) == [s EXCEPT ![k + 1] = x]

RECURSIVE predict_pass(_, _, _)
\* src/main.py lines 75-93: the series of predict() once bars 0 .. k are written
predict_pass(d, P, k) ==
    IF k = 0 THEN [st |-> SeedSupertrend(d, P), dir |-> SeedDirection(d)]
    ELSE LET prev == predict_pass(d, P, k - 1)
             w == predict_supertrend_iter(d, P, prev.st, prev.dir, k)
         IN  [st |-> SetAt(prev.st, k, w.st), dir |-> SetAt(prev.dir, k, w.dir)]

RECURSIVE chart_pass(_, _, _)
\* src/main.py lines 262-280: the series of chart() once bars 0 .. k are written
chart_pass(d, P, k) ==
    IF k = 0 THEN [st |-> SeedSupertrend(d, P), dir |-> SeedDirection(d)]
    ELSE LET prev == chart_pass(d, P, k - 1)
             w == chart_supertrend_iter(d, P, prev.st, prev.dir, k)
         IN  [st |-> SetAt(prev.st, k, w.st), dir |-> SetAt(prev.dir, k, w.dir)]

----------------------------------------------------------------------------
(* Inputs *)

Bar(h, l, c) == [High |-> h, Low |-> l, Close |-> c]

\* the bars the tables of the indicator entry points are made of
Bars == {Bar(2, 2, 2), Bar(4, 4, 4), Bar(1, 1, 1), Bar(8, 8, 8), Bar(4, 1, 2)}

RECURSIVE SeqsUpTo(_, _)
\* all sequences over S of length at most n
SeqsUpTo(S, n) ==
    IF n = 0 THEN {<<>>}
    ELSE LET shorter == SeqsUpTo(S, n - 1)
         IN  shorter \cup {Append(t, x) : t \in shorter, x \in S}

ShortTables == SeqsUpTo(Bars, MaxLen)

\* the tables too short for predict() that the download may deliver
FewTables == SeqsUpTo({Bar(2, 2, 2), Bar(4, 1, 2)}, MaxLen)

BasePrice == 1000
MinBars == 30          \* predict(): len(data) < 30
ChartMinBars == 5      \* chart(): len(data) < 5
ScenarioBars == 40
st_period == 10
EmaFastSpan == 9
EmaSlowSpan == 21
RsiPeriod == 14
AtrPeriod == 14

\* A table of n bars: Close starts at BasePrice and moves by a on odd bars and by
\* b on even bars, with one extra move of J at bar K; High = Close + u and
\* Low = Close - w
ScenarioClose(k, a, b, K, J) ==
    BasePrice + a * ((k + 1) \div 2) + b * (k \div 2) + (IF k >= K THEN J ELSE 0)

ScenarioTable(n, a, b, K, J, u, w) ==
    [k \in 1..n |->
        LET c == ScenarioClose(k - 1, a, b, K, J)
        IN  Bar(c + u, c - w, c)]

Moves == {-2, -1, 0, 1, 3}
Jumps == {-40, 0, 40}
JumpBars == {15, 25}
Spreads == {<<0, 0>>, <<1, 1>>}

LongTables ==
    {ScenarioTable(n, a, b, K, J, sp[1], sp[2]) :
        n \in {MinBars, ScenarioBars}, a \in Moves, b \in Moves,
        K \in JumpBars, J \in Jumps, sp \in Spreads}

MarketOpenUtc == 3 * 60 + 45
MarketCloseUtc == 10 * 60
NowValues == {MarketOpenUtc - 1, MarketOpenUtc + 75, MarketCloseUtc + 1}
LastTimeValues == {MarketOpenUtc + 24, MarketOpenUtc + 75}

----------------------------------------------------------------------------
(* Values that cross the boundary *)

\* the explicit missing marker (None)
None == [nan |-> FALSE, v |-> 0, none |-> TRUE]
IsNone(x) == "none" \in DOMAIN x

\* clean_val of src/indicators.py: NaN to None, everything else unchanged
clean_val(x) == IF IsNone(x) THEN None ELSE IF x.nan THEN None ELSE x

\* round(x, 2) of a float given in 1/unit, in hundredths; round(nan, 2) is nan
Round2(x, unit) ==
    IF x.nan THEN NaN ELSE Fin(RoundHalfEven(100 * x.v, unit))

\* round(x, 1), in tenths
Round1(x, unit) ==
    IF x.nan THEN NaN ELSE Fin(RoundHalfEven(10 * x.v, unit))

NoReturn == [kind |-> "none"]
Returned(v) == [kind |-> "value", val |-> v]
Raised(e) == [kind |-> "raise", exc |-> e]

----------------------------------------------------------------------------
(* predict(), src/main.py lines 13-148 *)

\* lines 15-41, and the except clause of lines 147-148 for a failed download
predict_guard ==
    /\ entry = "predict" /\ pc = "start"
    /\ IF fetch = "raise"
         THEN /\ ret' = Returned([error |-> "download failed"])
              /\ pc' = "done"
       ELSE IF Len(data) = 0 \/ Len(data) < MinBars
         THEN /\ ret' = Returned([error |-> "Market closed or insufficient data",
                                  signal |-> "CLOSED"])
              /\ pc' = "done"
       ELSE IF now_utc < MarketOpenUtc \/ now_utc > MarketCloseUtc
         THEN /\ ret' = Returned([signal |-> "CLOSED",
                                  message |-> "Market is closed"])
              /\ pc' = "done"
       ELSE IF last_time < MarketOpenUtc + 25
         THEN /\ ret' = Returned(
                    [signal |-> "WAIT",
                     message |-> "Market too young",
                     price |-> Round2(Fin(Close(data, Len(data) - 1)), 1),
                     time |-> last_time])
              /\ pc' = "done"
       ELSE /\ pc' = "indicators"
            /\ ret' = ret
    /\ UNCHANGED <<entry, fetch, data, now_utc, last_time, period, i, supertrend,
                   direction, price, fast, slow, rsi_last, atr_last, st_last,
                   st_dir, signal, confidence, target, stop_loss>>

\* lines 43-78: the vectorised indicators and the seed of the forward pass
predict_indicators ==
    /\ entry = "predict" /\ pc = "indicators"
    /\ LET n == Len(data)
           rsi == Rsi(data, n - 1, RsiPeriod)
           atr == Atr(data, n - 1, AtrPeriod)
       IN  /\ price' = Resolution * Close(data, n - 1)
           /\ fast' = Ema(data, EmaFastSpan, n - 1)
           /\ slow' = Ema(data, EmaSlowSpan, n - 1)
           /\ rsi_last' = IF IsNaN(rsi) THEN 50 * Resolution ELSE rsi.v
           /\ atr_last' = IF IsNaN(atr) THEN Resolution ELSE atr.v
    /\ supertrend' = SeedSupertrend(data, st_period)
    /\ direction' = SeedDirection(data)
    /\ i' = 1
    /\ pc' = "loop"
    /\ UNCHANGED <<entry, fetch, data, now_utc, last_time, period, st_last,
                   st_dir, signal, confidence, target, stop_loss, ret>>

\* lines 80-93: one iteration of the loop
predict_loop ==
    /\ entry = "predict" /\ pc = "loop" /\ i < Len(data)
    /\ LET w == predict_supertrend_iter(data, st_period, supertrend, direction, i)
       IN  /\ supertrend' = SetAt(supertrend, i, w.st)
           /\ direction' = SetAt(direction, i, w.dir)
    /\ i' = i + 1
    /\ UNCHANGED <<entry, pc, fetch, data, now_utc, last_time, period, price,
                   fast, slow, rsi_last, atr_last, st_last, st_dir, signal,
                   confidence, target, stop_loss, ret>>

\* lines 95-96: the loop is over
predict_last ==
    /\ entry = "predict" /\ pc = "loop" /\ i >= Len(data)
    /\ st_last' = At(supertrend, Len(data) - 1)
    /\ st_dir' = At(direction, Len(data) - 1)
    /\ pc' = "fuse"
    /\ UNCHANGED <<entry, fetch, data, now_utc, last_time, period, i, supertrend,
                   direction, price, fast, slow, rsi_last, atr_last, signal,
                   confidence, target, stop_loss, ret>>

\* lines 98-145: fusion, confidence, target and stop, and the record returned
predict_fuse ==
    /\ entry = "predict" /\ pc = "fuse"
    /\ LET sig == Signal(fast, slow, rsi_last, st_dir)
           conf == Confidence(sig, fast, slow, rsi_last, atr_last, st_dir)
           tgt == Target(sig, price, atr_last)
           stp == StopLoss(sig, price, atr_last)
       IN  /\ signal' = sig
           /\ confidence' = conf
           /\ target' = tgt
           /\ stop_loss' = stp
           /\ ret' = Returned(
                 [price |-> Round2(Fin(price), Resolution),
                  signal |-> sig,
                  ema_fast |-> Round2(Fin(fast), Resolution),
                  ema_slow |-> Round2(Fin(slow), Resolution),
                  rsi |-> Round1(Fin(rsi_last), Resolution),
                  atr |-> Round2(Fin(atr_last), Resolution),
                  supertrend |-> Round2(st_last, 2 * st_period),
                  st_dir |-> IF st_dir = 1 THEN "BULLISH"
                             ELSE IF st_dir = -1 THEN "BEARISH" ELSE "N/A",
                  confidence |-> Fin(conf),
                  target |-> Round2(Fin(tgt), 10 * Resolution),
                  stop_loss |-> Round2(Fin(stp), 10 * Resolution),
                  time |-> last_time])
    /\ pc' = "done"
    /\ UNCHANGED <<entry, fetch, data, now_utc, last_time, period, i, supertrend,
                   direction, price, fast, slow, rsi_last, atr_last, st_last,
                   st_dir>>

----------------------------------------------------------------------------
(* chart(), src/main.py lines 232-313 *)

\* lines 238-243, and the except clause of lines 312-313 for a failed download
chart_guard ==
    /\ entry = "chart" /\ pc = "start"
    /\ IF fetch = "raise"
         THEN /\ ret' = Returned([error |-> "download failed"])
              /\ pc' = "done"
       ELSE IF Len(data) = 0 \/ Len(data) < ChartMinBars
         THEN /\ ret' = Returned([error |-> "No chart data available"])
              /\ pc' = "done"
       ELSE /\ pc' = "indicators"
            /\ ret' = ret
    /\ UNCHANGED <<entry, fetch, data, now_utc, last_time, period, i, supertrend,
                   direction, price, fast, slow, rsi_last, atr_last, st_last,
                   st_dir, signal, confidence, target, stop_loss>>

\* lines 245-265: the seed of the forward pass (the EMA series are read at the end)
chart_indicators ==
    /\ entry = "chart" /\ pc = "indicators"
    /\ supertrend' = SeedSupertrend(data, st_period)
    /\ direction' = SeedDirection(data)
    /\ i' = 1
    /\ pc' = "loop"
    /\ UNCHANGED <<entry, fetch, data, now_utc, last_time, period, price, fast,
                   slow, rsi_last, atr_last, st_last, st_dir, signal, confidence,
                   target, stop_loss, ret>>

\* lines 267-280: one iteration of the loop
chart_loop ==
    /\ entry = "chart" /\ pc = "loop" /\ i < Len(data)
    /\ LET w == chart_supertrend_iter(data, st_period, supertrend, direction, i)
       IN  /\ supertrend' = SetAt(supertrend, i, w.st)
           /\ direction' = SetAt(direction, i, w.dir)
    /\ i' = i + 1
    /\ UNCHANGED <<entry, pc, fetch, data, now_utc, last_time, period, price,
                   fast, slow, rsi_last, atr_last, st_last, st_dir, signal,
                   confidence, target, stop_loss, ret>>

\* float(x) if pd.notna(x) else None
PointValue(x) == IF IsNaN(x) THEN None ELSE x

\* [d for d in points if d["value"] is not None]
DropMissing(points) == SelectSeq(points, LAMBDA pt : ~IsNone(pt.value))

\* lines 282-310: the points of every series, missing values dropped
chart_emit ==
    /\ entry = "chart" /\ pc = "loop" /\ i >= Len(data)
    /\ LET n == Len(data)
           candles == [k \in 1..n |->
                          [time |-> k,
                           high |-> Fin(High(data, k - 1)),
                           low |-> Fin(Low(data, k - 1)),
                           close |-> Fin(Close(data, k - 1))]]
           ema_fast_data == [k \in 1..n |->
               [time |-> k, value |-> PointValue(Fin(Ema(data, EmaFastSpan, k - 1)))]]
           ema_slow_data == [k \in 1..n |->
               [time |-> k, value |-> PointValue(Fin(Ema(data, EmaSlowSpan, k - 1)))]]
           supertrend_data == [k \in 1..n |->
               [time |-> k, value |-> PointValue(At(supertrend, k - 1))]]
       IN  ret' = Returned([candles |-> candles,
                            ema_fast |-> DropMissing(ema_fast_data),
                            ema_slow |-> DropMissing(ema_slow_data),
                            supertrend |-> DropMissing(supertrend_data)])
    /\ pc' = "done"
    /\ UNCHANGED <<entry, fetch, data, now_utc, last_time, period, i, supertrend,
                   direction, price, fast, slow, rsi_last, atr_last, st_last,
                   st_dir, signal, confidence, target, stop_loss>>

----------------------------------------------------------------------------
(* The entry points of src/indicators.py *)

\* calculate_ema(series, span), line 14
calculate_ema ==
    /\ entry = "calculate_ema" /\ pc = "start"
    /\ ret' = Returned([k \in 1..Len(data) |-> Fin(Ema(data, period, k - 1))])
    /\ pc' = "done"
    /\ UNCHANGED <<entry, fetch, data, now_utc, last_time, period, i, supertrend,
                   direction, price, fast, slow, rsi_last, atr_last, st_last,
                   st_dir, signal, confidence, target, stop_loss>>

\* calculate_rsi(close, period), lines 16-21
calculate_rsi ==
    /\ entry = "calculate_rsi" /\ pc = "start"
    /\ ret' = Returned([k \in 1..Len(data) |-> Rsi(data, k - 1, period)])
    /\ pc' = "done"
    /\ UNCHANGED <<entry, fetch, data, now_utc, last_time, period, i, supertrend,
                   direction, price, fast, slow, rsi_last, atr_last, st_last,
                   st_dir, signal, confidence, target, stop_loss>>

\* calculate_supertrend(df, period), lines 24-45: on an empty table
\* lower_band.iloc[0] raises IndexError
calculate_supertrend_begin ==
    /\ entry = "calculate_supertrend" /\ pc = "start"
    /\ IF Len(data) = 0
         THEN /\ ret' = Raised("IndexError")
              /\ pc' = "done"
              /\ UNCHANGED <<supertrend, direction, i>>
         ELSE /\ supertrend' = SeedSupertrend(data, period)
              /\ direction' = SeedDirection(data)
              /\ i' = 1
              /\ pc' = "loop"
              /\ ret' = ret
    /\ UNCHANGED <<entry, fetch, data, now_utc, last_time, period, price, fast,
                   slow, rsi_last, atr_last, st_last, st_dir, signal, confidence,
                   target, stop_loss>>

\* lines 47-65: one iteration of the loop
calculate_supertrend_loop ==
    /\ entry = "calculate_supertrend" /\ pc = "loop" /\ i < Len(data)
    /\ LET w == calculate_supertrend_iter(data, period, supertrend, direction, i)
       IN  /\ supertrend' = SetAt(supertrend, i, w.st)
           /\ direction' = SetAt(direction, i, w.dir)
    /\ i' = i + 1
    /\ UNCHANGED <<entry, pc, fetch, data, now_utc, last_time, period, price,
                   fast, slow, rsi_last, atr_last, st_last, st_dir, signal,
                   confidence, target, stop_loss, ret>>

\* line 67
calculate_supertrend_return ==
    /\ entry = "calculate_supertrend" /\ pc = "loop" /\ i >= Len(data)
    /\ ret' = Returned([supertrend |-> supertrend,
                        direction |-> direction,
                        atr |-> [k \in 1..Len(data) |-> Atr(data, k - 1, period)]])
    /\ pc' = "done"
    /\ UNCHANGED <<entry, fetch, data, now_utc, last_time, period, i, supertrend,
                   direction, price, fast, slow, rsi_last, atr_last, st_last,
                   st_dir, signal, confidence, target, stop_loss>>

----------------------------------------------------------------------------
(* Specifications *)

NoLocals ==
    /\ price = 0 /\ fast = 0 /\ slow = 0 /\ rsi_last = 0 /\ atr_last = 0
    /\ st_last = NaN /\ st_dir = 0

NoResult ==
    /\ signal = "" /\ confidence = 0 /\ target = 0 /\ stop_loss = 0
    /\ ret = NoReturn

\* One evaluation of one entry point on one input
Init ==
    /\ pc = "start"
    /\ i = 0 /\ supertrend = <<>> /\ direction = <<>>
    /\ NoLocals /\ NoResult
    /\ \/ /\ entry \in {"calculate_ema", "calculate_rsi", "calculate_supertrend"}
          /\ fetch = "ok"
          /\ data \in ShortTables
          /\ period \in 1..MaxPeriod
          /\ now_utc = 0 /\ last_time = 0
       \/ /\ entry = "calculate_supertrend"
          /\ fetch = "ok"
          /\ data \in LongTables
          /\ period = st_period
          /\ now_utc = 0 /\ last_time = 0
       \/ /\ entry = "predict"
          /\ period = st_period
          /\ \/ fetch = "raise" /\ data = <<>> /\ now_utc = 0 /\ last_time = 0
             \/ /\ fetch = "ok"
                /\ data \in FewTables \cup LongTables
                /\ now_utc \in NowValues
                /\ last_time \in LastTimeValues
       \/ /\ entry = "chart"
          /\ period = st_period
          /\ now_utc = 0 /\ last_time = 0
          /\ \/ fetch = "raise" /\ data = <<>>
             \/ fetch = "ok" /\ data \in FewTables \cup LongTables

Next ==
    \/ predict_guard
    \/ predict_indicators
    \/ predict_loop
    \/ predict_last
    \/ predict_fuse
    \/ chart_guard
    \/ chart_indicators
    \/ chart_loop
    \/ chart_emit
    \/ calculate_ema
    \/ calculate_rsi
    \/ calculate_supertrend_begin
    \/ calculate_supertrend_loop
    \/ calculate_supertrend_return

Spec == Init /\ [][Next]_vars

\* The inputs of the fusion step of predict(), line 98
FusionRsi ==
    {0, RsiSellLevel * Resolution - 1, RsiSellLevel * Resolution,
     RsiSellLevel * Resolution + 1, 50 * Resolution,
     RsiBuyLevel * Resolution - 1, RsiBuyLevel * Resolution,
     RsiBuyLevel * Resolution + 1, 60 * Resolution, 100 * Resolution}

FusionOffsets == {-3 * Resolution, -1, 0, 1, 3 * Resolution}
FusionAtr == {0, 1, Resolution, 5 * Resolution}

InitFusion ==
    /\ entry = "predict" /\ pc = "fuse" /\ fetch = "ok"
    /\ data = <<>> /\ now_utc = MarketOpenUtc + 75 /\ last_time = MarketOpenUtc + 75
    /\ period = st_period
    /\ i = 0 /\ supertrend = <<>> /\ direction = <<>>
    /\ price = BasePrice * Resolution
    /\ fast \in {BasePrice * Resolution + o : o \in FusionOffsets}
    /\ slow \in {BasePrice * Resolution, BasePrice * Resolution + 1}
    /\ rsi_last \in FusionRsi
    /\ atr_last \in FusionAtr
    /\ st_dir \in {1, -1}
    /\ st_last \in {NaN, Fin(2 * st_period * BasePrice)}
    /\ NoResult

NextFusion == predict_fuse

SpecFusion == InitFusion /\ [][NextFusion]_vars

----------------------------------------------------------------------------
(* Claims *)

\* the fusion step of predict() has run
Fused == entry = "predict" /\ pc = "done" /\ signal # ""

\* the entry point is over; its forward pass, if it ran one, wrote bars 0 .. i-1
PassOver == pc = "done"

\* the crossings of the forward pass at bar k
CrossUp(k) == FGt(CloseST(data, k, period), UpperBand(data, k - 1, period))
CrossDown(k) == FLt(CloseST(data, k, period), LowerBand(data, k - 1, period))

\* C1: the signal is BUY iff EMA-fast > EMA-slow, RSI > 53 and direction UP; SELL
\* iff EMA-fast < EMA-slow, RSI < 47 and direction DOWN; NEUTRAL in every other case
C1_SignalIffConfluence ==
    Fused =>
        /\ signal \in {"BUY", "SELL", "NEUTRAL"}
        /\ signal = "BUY" <=>
              (fast > slow /\ rsi_last > 53 * Resolution /\ st_dir = 1)
        /\ signal = "SELL" <=>
              (fast < slow /\ rsi_last < 47 * Resolution /\ st_dir = -1)

\* C1 witness: two filters bullish and the RSI exactly 53 gave NEUTRAL
C1_Witness ==
    /\ Fused /\ signal = "NEUTRAL"
    /\ fast > slow /\ rsi_last = 53 * Resolution /\ st_dir = 1

\* C2: the confidence lies in [0,100] (tenths: 0..1000) and is exactly 0 whenever
\* the signal is NEUTRAL
C2_ConfidenceBoundedZeroNeutral ==
    Fused =>
        /\ 0 <= confidence /\ confidence <= 1000
        /\ signal = "NEUTRAL" => confidence = 0

\* C3: at every bar where the average loss over the window is exactly zero the RSI
\* is 100, in calculate_rsi and in the inline copy of predict()
C3_ZeroLossRsi100 ==
    /\ (entry = "calculate_rsi" /\ pc = "done") =>
          \A k \in 0..(Len(data) - 1) :
              (k >= period - 1 /\ SumLoss(data, k, period) = 0)
                  => At(ret.val, k) = Fin(100 * Resolution)
    /\ (Fused /\ data # <<>>) =>
          (SumLoss(data, Len(data) - 1, RsiPeriod) = 0
              => rsi_last = 100 * Resolution)

\* C4: risk = 1.2 ATR, reward = 2.4 ATR; BUY has target = price + reward and
\* stop = price - risk, SELL has target = price - reward and stop = price + risk,
\* NEUTRAL has target = stop = price; for ATR > 0 a BUY has stop < price < target
\* and a SELL has target < price < stop (values in tenths of a fixed-point step)
C4_TargetStop ==
    Fused =>
        /\ signal = "BUY" =>
              /\ target = 10 * price + 24 * atr_last
              /\ stop_loss = 10 * price - 12 * atr_last
              /\ atr_last > 0 => (stop_loss < 10 * price /\ 10 * price < target)
        /\ signal = "SELL" =>
              /\ target = 10 * price - 24 * atr_last
              /\ stop_loss = 10 * price + 12 * atr_last
              /\ atr_last > 0 => (target < 10 * price /\ 10 * price < stop_loss)
        /\ signal = "NEUTRAL" => (target = 10 * price /\ stop_loss = 10 * price)
        /\ Abs(target - 10 * price) = 2 * Abs(stop_loss - 10 * price)

\* C4 witness: a SELL with a positive ATR
C4_Witness ==
    /\ Fused /\ signal = "SELL" /\ atr_last > 0
    /\ target < 10 * price /\ 10 * price < stop_loss

Categories == {"BUY", "SELL", "NEUTRAL", "WAIT", "CLOSED", "DATA_ERROR"}

\* C5: every evaluation of predict() returns a record, never a fault, and the
\* record carries a category among BUY, SELL, NEUTRAL, WAIT, CLOSED, DATA_ERROR
C5_AlwaysCategory ==
    (entry = "predict" /\ pc = "done") =>
        /\ ret.kind = "value"
        /\ "signal" \in DOMAIN ret.val
        /\ ret.val.signal \in Categories

\* a numeric field is a finite number or the missing marker
FieldOk(x) == IsNone(x) \/ IsFinite(x)

PointsOk(points) == \A k \in 1..Len(points) : FieldOk(points[k].value)

\* C6: in every record of predict() and every point of chart() each numeric
\* field is a finite number or the missing marker, never NaN
C6_NoNonFinite ==
    /\ (entry = "predict" /\ pc = "done" /\ "supertrend" \in DOMAIN ret.val) =>
          /\ FieldOk(ret.val.price) /\ FieldOk(ret.val.ema_fast)
          /\ FieldOk(ret.val.ema_slow) /\ FieldOk(ret.val.rsi)
          /\ FieldOk(ret.val.atr) /\ FieldOk(ret.val.supertrend)
          /\ FieldOk(ret.val.confidence) /\ FieldOk(ret.val.target)
          /\ FieldOk(ret.val.stop_loss)
    /\ (entry = "chart" /\ pc = "done" /\ "candles" \in DOMAIN ret.val) =>
          /\ PointsOk(ret.val.ema_fast) /\ PointsOk(ret.val.ema_slow)
          /\ PointsOk(ret.val.supertrend)
          /\ \A k \in 1..Len(ret.val.candles) :
                /\ FieldOk(ret.val.candles[k].high)
                /\ FieldOk(ret.val.candles[k].low)
                /\ FieldOk(ret.val.candles[k].close)

\* C7: at every bar k >= 1 the direction differs from the previous bar's only if
\* the corresponding crossing holds (to UP: close[k] > upperBand[k-1]; to DOWN:
\* close[k] < lowerBand[k-1]); where neither crossing holds, also during the ATR
\* warm-up, the direction is the previous bar's
C7_DirectionChangesOnlyOnCrossing ==
    PassOver =>
        \A k \in 1..(i - 1) :
            /\ At(direction, k) # At(direction, k - 1) =>
                  /\ At(direction, k) = 1 => CrossUp(k)
                  /\ At(direction, k) = -1 => CrossDown(k)
                  /\ At(direction, k) \in {1, -1}
            /\ (~CrossUp(k) /\ ~CrossDown(k)) =>
                  At(direction, k) = At(direction, k - 1)

\* C7 witness: a pass of calculate_supertrend that kept the direction through a
\* warm-up bar, then turned DOWN and later UP again
C7_Witness ==
    /\ entry = "calculate_supertrend" /\ pc = "done" /\ ret.kind = "value"
    /\ IsNaN(UpperBand(data, 0, period))
    /\ \E k \in 2..(i - 1) :
          /\ At(direction, k - 1) = -1 /\ At(direction, k) = 1
          /\ At(direction, k - 2) = 1

\* C8: for consecutive bars k-1, k with the same direction and both trend values
\* defined, the trend only tightens: UP gives trend[k] >= trend[k-1], DOWN gives
\* trend[k] <= trend[k-1], also on a bar whose close crosses the band on the side
\* of the trend in force
C8_TrendOnlyTightens ==
    PassOver =>
        \A k \in 1..(i - 1) :
            (IsFinite(At(supertrend, k)) /\ IsFinite(At(supertrend, k - 1))) =>
                /\ (At(direction, k - 1) = 1 /\ At(direction, k) = 1) =>
                      At(supertrend, k).v >= At(supertrend, k - 1).v
                /\ (At(direction, k - 1) = -1 /\ At(direction, k) = -1) =>
                      At(supertrend, k).v <= At(supertrend, k - 1).v

\* a table of ScenarioBars bars with strictly increasing Close and a constant
\* High - Low spread
IsUptrend(d) ==
    /\ Len(d) = ScenarioBars
    /\ \A k \in 1..(Len(d) - 1) : Close(d, k) > Close(d, k - 1)
    /\ \A k \in 0..(Len(d) - 1) : High(d, k) - Low(d, k) = High(d, 0) - Low(d, 0)

\* C9: on a 40-bar uptrend the pipeline ends with RSI above 53, EMA-fast above
\* EMA-slow and signal BUY, and the direction is UP at every bar from the first
\* bar whose Close exceeds the previous bar's upper band onward
C9_UptrendGivesBuy ==
    (Fused /\ IsUptrend(data)) =>
        /\ rsi_last > 53 * Resolution
        /\ fast > slow
        /\ signal = "BUY"
        /\ \A k \in 1..(Len(data) - 1) :
              (\E j \in 1..k : CrossUp(j)) => At(direction, k) = 1

\* C10: an empty bar sequence handed to any entry point ends in an empty or
\* insufficient-data result, never in a raised exception
C10_EmptyInputNoException ==
    (pc = "done" /\ fetch = "ok" /\ data = <<>>) =>
        /\ ret.kind = "value"
        /\ \/ ret.val = <<>>
           \/ "error" \in DOMAIN ret.val

\* C11: on a fetched table that is non-empty but shorter than 30 bars predict()
\* computes no BUY/SELL/NEUTRAL signal and returns a record whose category is
\* specific to insufficient data (not the category of a closed market) and which
\* carries the last bar's price
C11_ShortTableOwnCategoryAndPrice ==
    (entry = "predict" /\ pc = "done" /\ fetch = "ok"
        /\ 0 < Len(data) /\ Len(data) < 30) =>
        /\ ret.kind = "value"
        /\ "signal" \in DOMAIN ret.val
        /\ ret.val.signal \notin {"BUY", "SELL", "NEUTRAL"}
        /\ ret.val.signal # "CLOSED"
        /\ "price" \in DOMAIN ret.val
        /\ ret.val.price = Fin(100 * Close(data, Len(data) - 1))

\* C12: on every non-empty table the inline loops of predict() and chart(), which
\* have no carry-forward step, give at every bar the same trend value (defined or
\* undefined) and the same direction as calculate_supertrend, which has it
C12_ThreeCopiesAgree ==
    (entry = "calculate_supertrend" /\ pc = "done" /\ data # <<>>) =>
        LET p == predict_pass(data, period, Len(data) - 1)
            c == chart_pass(data, period, Len(data) - 1)
        IN  /\ ret.kind = "value"
            /\ ret.val.supertrend = p.st /\ ret.val.direction = p.dir
            /\ ret.val.supertrend = c.st /\ ret.val.direction = c.dir

\* C12 witness: calculate_supertrend(period=10) returned a series that is undefined
\* on a bar after the ATR warm-up, where the carry-forward step ran, and defined
\* later, with a DOWN bar
C12_Witness ==
    /\ entry = "calculate_supertrend" /\ pc = "done" /\ ret.kind = "value"
    /\ period = st_period
    /\ \E k \in 1..(Len(data) - 1) :
          /\ IsFinite(LowerBand(data, k, period))
          /\ IsNaN(At(ret.val.supertrend, k))
    /\ \E k \in 1..(Len(data) - 1) :
          /\ IsFinite(At(ret.val.supertrend, k))
          /\ At(ret.val.direction, k) = -1

\* the bars of the forward pass at which a crossing holds
Crossings == {j \in 1..(i - 1) : CrossUp(j) \/ CrossDown(j)}

\* C13: in a pass with period >= 2 the trend is undefined at bar 0 and at every
\* bar before the first crossing (close[i] > upperBand[i-1] or close[i] <
\* lowerBand[i-1]), also after the ATR warm-up, and defined at every bar from that
\* crossing on; with no crossing at all the whole trend series and its last value
\* are undefined and the direction is UP throughout
C13_TrendUndefinedUntilFirstCrossing ==
    (PassOver /\ period >= 2 /\ i >= 1) =>
        LET X == Crossings
        IN  /\ IsNaN(At(supertrend, 0))
            /\ \A k \in 0..(i - 1) :
                  IsFinite(At(supertrend, k)) <=> \E j \in X : j <= k
            /\ X = {} =>
                  /\ \A k \in 0..(i - 1) :
                        IsNaN(At(supertrend, k)) /\ At(direction, k) = 1
                  /\ entry = "predict" => IsNaN(st_last) /\ st_dir = 1

\* C13 witness: a finished pass with period >= 2 whose trend is still undefined
\* on a bar that has a defined band and no crossing yet, and defined from a later
\* crossing on
C13_Witness ==
    /\ PassOver /\ period >= 2 /\ i >= 3
    /\ \E k \in 1..(i - 2) :
          /\ IsFinite(LowerBand(data, k, period))
          /\ IsNaN(At(supertrend, k))
          /\ CrossUp(k + 1) \/ CrossDown(k + 1)
          /\ IsFinite(At(supertrend, k + 1))

====
